---- MODULE Spec2Model ----
(***************************************************************************)
(* serde_rosmsg: the ROSMSG encoder (src/src/ser.rs) and decoder           *)
(* (src/src/de.rs) as operators over byte sequences, driven by a small     *)
(* state machine that calls to_vec and from_slice.                         *)
(*                                                                         *)
(* A byte is a number in 0..255, a byte string a sequence of bytes.        *)
(* A Rust value is a record tagged by its serde data-model category "k".   *)
(* An integer is held as sign and magnitude, the magnitude in big-endian   *)
(* base-256 digits (its hexadecimal notation), so that 64-bit values are   *)
(* representable and the little-endian two's-complement layout is computed *)
(* rather than assumed.                                                    *)
(***************************************************************************)
EXTENDS Integers, Sequences, FiniteSets, TLC

VARIABLES value, writer, werr, data, ty, result, pos, pc, visitor

vars == <<value, writer, werr, data, ty, result, pos, pc, visitor>>

(***************************************************************************)
(* Bounds of the model.                                                    *)
(***************************************************************************)
MaxStrLen == 2

MaxLen == 2

MaxTrail == 1

MaxRequests == 4

(***************************************************************************)
(* Byte-string helpers.                                                    *)
(***************************************************************************)
Reverse(s) == [i \in 1..Len(s) |-> s[Len(s) + 1 - i]]

Take(s, n) == SubSeq(s, 1, n)

Drop(s, n) == SubSeq(s, n + 1, Len(s))

RECURSIVE Flatten(_)
Flatten(ss) == IF ss = <<>> THEN <<>> ELSE Head(ss) \o Flatten(Tail(ss))

SeqsUpTo(S, n) == UNION {[1..m -> S] : m \in 0..n}

Range(s) == {s[i] : i \in 1..Len(s)}

(***************************************************************************)
(* Results of the encoder: Ok(bytes written) or Err(kind); out is what the *)
(* call has written to its writer, also when it fails.                     *)
(***************************************************************************)
Ok(out) == [ok |-> TRUE, err |-> "none", out |-> out]

Err(e) == [ok |-> FALSE, err |-> e, out |-> <<>>]

(***************************************************************************)
(* Values of the serde data model.                                         *)
(***************************************************************************)
Bool(b) == [k |-> "bool", v |-> b]

Num(signed, w, neg, mag) == [k |-> "int", signed |-> signed, w |-> w, neg |-> neg, mag |-> mag]

Text(s) == [k |-> "text", s |-> s]

\* a byte blob (serde::bytes::ByteBuf)
Bytes(b) == [k |-> "bytes", b |-> b]

Tuple(m) == [k |-> "tuple", m |-> m]

Array(t, m) == [k |-> "array", t |-> t, m |-> m]

Vec(t, m) == [k |-> "seq", t |-> t, m |-> m, len |-> TRUE]

UnsizedSeq(t, m) == [k |-> "seq", t |-> t, m |-> m, len |-> FALSE]

Map(kt, vt, e) == [k |-> "map", kt |-> kt, vt |-> vt, e |-> e]

Unit == [k |-> "unit"]

Newtype(v) == [k |-> "newtype", v |-> v]

Char == [k |-> "char"]

None == [k |-> "none"]

Some(v) == [k |-> "some", v |-> v]

Variant == [k |-> "variant"]

(***************************************************************************)
(* Two's complement on big-endian digit strings.                           *)
(***************************************************************************)
Complement(d) == [i \in 1..Len(d) |-> 255 - d[i]]

RECURSIVE AddOne(_, _)
AddOne(d, i) ==
    IF i = 0 THEN d
    ELSE IF d[i] = 255 THEN AddOne([d EXCEPT ![i] = 0], i - 1)
    ELSE [d EXCEPT ![i] = d[i] + 1]

Negate(d) == AddOne(Complement(d), Len(d))

BitPattern(v) == IF v.neg THEN Negate(v.mag) ELSE v.mag

(***************************************************************************)
(* Encoder, src/src/ser.rs.                                                *)
(***************************************************************************)
write_size(len) == [i \in 1..4 |-> (len \div (256 ^ (i - 1))) % 256]

serialize_bool(v) == Ok(<<IF v THEN 1 ELSE 0>>)

\* the bytes most significant first
serialize_num_BE(v) == Ok(BitPattern(v))

serialize_num(v) == Ok(Reverse(BitPattern(v)))

\* the text layout of the example of lib.rs: an envelope in front of the count
serialize_bytes_enveloped(bytes) == Ok(write_size(Len(bytes) + 4) \o write_size(Len(bytes)) \o bytes)

serialize_bytes(bytes) == Ok(write_size(Len(bytes)) \o bytes)

serialize_str(s) == serialize_bytes(s)

serialize_char == Err("UnsupportedCharType")

serialize_none == Err("UnsupportedEnumType")

serialize_some == Err("UnsupportedEnumType")

serialize_variant == Err("UnsupportedEnumType")

serialize_unit == Ok(<<>>)

Compound_new == <<>>

\* the buffer flushed without its byte length
Compound_end_noprefix(buffer) == Ok(buffer)

Compound_end(buffer) == serialize_bytes(buffer)

\* a sequence that does not write its element count
serialize_seq_nocount(len, n) ==
    IF len THEN Ok(Compound_new) ELSE Err("VariableArraySizeAnnotation")

serialize_seq(len, n) ==
    IF len THEN Ok(Compound_new \o write_size(n)) ELSE Err("VariableArraySizeAnnotation")

serialize_seq_fixed_size == Ok(Compound_new)

RECURSIVE serialize(_)
RECURSIVE serialize_elements(_, _)
RECURSIVE serialize_entries(_, _)

\* CompoundMap::serialize_key: the item is the key without its first 4
\* bytes, then '='
serialize_key(key) ==
    LET r == serialize(key)
    IN  IF r.ok THEN Ok(Drop(r.out, 4) \o <<61>>) ELSE Err(r.err)

\* an entry without the '=' between key and value
serialize_value_nosep(item, val) ==
    LET r == serialize(val)
    IN  IF r.ok THEN serialize_bytes(Take(item, Len(item) - 1) \o Drop(r.out, 4)) ELSE Err(r.err)

\* CompoundMap::serialize_value: the value without its first 4 bytes joins
\* the item, the item is written as bytes into the buffer of the map
serialize_value(item, val) ==
    LET r == serialize(val)
    IN  IF r.ok THEN serialize_bytes(item \o Drop(r.out, 4)) ELSE Err(r.err)

\* the elements into the buffer of a Compound; on failure out is what the
\* buffer holds by then
serialize_elements(buffer, ms) ==
    IF ms = <<>> THEN Ok(buffer)
    ELSE LET r == serialize(Head(ms))
         IN  IF r.ok THEN serialize_elements(buffer \o r.out, Tail(ms))
             ELSE [r EXCEPT !.out = buffer \o r.out]

serialize_entries(buffer, es) ==
    IF es = <<>> THEN Ok(buffer)
    ELSE LET kr == serialize_key(Head(es)[1])
         IN  IF ~kr.ok THEN [kr EXCEPT !.out = buffer]
             ELSE LET vr == serialize_value(kr.out, Head(es)[2])
                  IN  IF vr.ok THEN serialize_entries(buffer \o vr.out, Tail(es))
                      ELSE [vr EXCEPT !.out = buffer]

\* members written to the writer as they are serialized
serialize_compound_streaming(start, ms) ==
    IF ~start.ok THEN start
    ELSE LET r == serialize_elements(start.out, ms)
         IN  IF r.ok THEN Compound_end(r.out) ELSE r

\* a Compound from its creation to end(): the buffer reaches the writer in
\* end() only, a failing member drops it
serialize_compound(start, ms) ==
    IF ~start.ok THEN start
    ELSE LET r == serialize_elements(start.out, ms)
         IN  IF r.ok THEN Compound_end(r.out) ELSE Err(r.err)

serialize_map(es) ==
    LET r == serialize_entries(<<>>, es)
    IN  IF r.ok THEN serialize_bytes(r.out) ELSE Err(r.err)

serialize(v) ==
    CASE v.k = "bool" -> serialize_bool(v.v)
      [] v.k = "int" -> serialize_num(v)
      [] v.k = "text" -> serialize_str(v.s)
      [] v.k = "bytes" -> serialize_bytes(v.b)
      [] v.k = "char" -> serialize_char
      [] v.k = "none" -> serialize_none
      [] v.k = "some" -> serialize_some
      [] v.k = "variant" -> serialize_variant
      [] v.k = "unit" -> serialize_unit
      [] v.k = "newtype" -> serialize(v.v)
      [] v.k = "tuple" -> serialize_compound(serialize_seq_fixed_size, v.m)
      [] v.k = "array" -> serialize_compound(serialize_seq_fixed_size, v.m)
      [] v.k = "seq" -> serialize_compound(serialize_seq(v.len, Len(v.m)), v.m)
      [] v.k = "map" -> serialize_map(v.e)

to_writer(v) == serialize(v)

to_vec(v) == to_writer(v)

(***************************************************************************)
(* Types (the caller-declared target shape T of a decode).                 *)
(***************************************************************************)
TBool == [k |-> "bool"]

TNum(signed, w) == [k |-> "int", signed |-> signed, w |-> w]

TText == [k |-> "text"]

TBytes == [k |-> "bytes"]

TTuple(ts) == [k |-> "tuple", ts |-> ts]

TArray(n, t) == [k |-> "array", n |-> n, t |-> t]

TSeq(t) == [k |-> "seq", t |-> t]

TMap(kt, vt) == [k |-> "map", kt |-> kt, vt |-> vt]

TUnit == [k |-> "unit"]

TNewtype(t) == [k |-> "newtype", t |-> t]

TChar == [k |-> "char"]

TOption == [k |-> "option"]

TEnum == [k |-> "enum"]

TAny == [k |-> "any"]

TField == [k |-> "field"]

TIgnored == [k |-> "ignored"]

RECURSIVE TypeOf(_)
TypeOf(v) ==
    CASE v.k = "bool" -> TBool
      [] v.k = "int" -> TNum(v.signed, v.w)
      [] v.k = "text" -> TText
      [] v.k = "bytes" -> TBytes
      [] v.k = "tuple" -> TTuple([i \in 1..Len(v.m) |-> TypeOf(v.m[i])])
      [] v.k = "array" -> TArray(Len(v.m), v.t)
      [] v.k = "seq" -> TSeq(v.t)
      [] v.k = "map" -> TMap(v.kt, v.vt)
      [] v.k = "unit" -> TUnit
      [] v.k = "newtype" -> TNewtype(TypeOf(v.v))
      [] v.k = "char" -> TChar
      [] v.k = "none" -> TOption
      [] v.k = "some" -> TOption
      [] v.k = "variant" -> TEnum

(***************************************************************************)
(* u32 arithmetic.  A u32 is a pair <<hi, lo>> of 16-bit limbs, so that    *)
(* every 32-bit length is representable.                                   *)
(***************************************************************************)
Limb == 65536

U32Of(n) == <<(n \div Limb) % Limb, n % Limb>>

U32FromLE(b) == <<b[4] * 256 + b[3], b[2] * 256 + b[1]>>

U32IsZero(x) == x[1] = 0 /\ x[2] = 0

U32Lt(x, y) == x[1] < y[1] \/ (x[1] = y[1] /\ x[2] < y[2])

U32Add(x, y) ==
    <<(x[1] + y[1] + ((x[2] + y[2]) \div Limb)) % Limb, (x[2] + y[2]) % Limb>>

U32Sub(x, y) ==
    IF x[2] >= y[2] THEN <<(x[1] - y[1] + Limb) % Limb, x[2] - y[2]>>
    ELSE <<(x[1] - y[1] - 1 + 2 * Limb) % Limb, x[2] + Limb - y[2]>>

\* the u32 x as a byte count compared with n bytes at hand (n < 2^16)
U32Exceeds(x, n) == x[1] > 0 \/ x[2] > n

(***************************************************************************)
(* Results of the decoder: the value or the error, and the position of    *)
(* the reader (the number of bytes of the source consumed so far).         *)
(***************************************************************************)
DOk(val, p) == [ok |-> TRUE, err |-> "none", val |-> val, pos |-> p]

DErr(e, p) == [ok |-> FALSE, err |-> e, val |-> Unit, pos |-> p]

(***************************************************************************)
(* std::string::String::from_utf8: well-formed UTF-8.                      *)
(***************************************************************************)
IsCont(b, lo, hi) == b >= lo /\ b <= hi

RECURSIVE IsUtf8(_)
IsUtf8(b) ==
    IF b = <<>> THEN TRUE
    ELSE LET c == b[1]
             n == Len(b)
         IN  IF c < 128 THEN IsUtf8(Drop(b, 1))
             ELSE IF c >= 194 /\ c <= 223
                  THEN n >= 2 /\ IsCont(b[2], 128, 191) /\ IsUtf8(Drop(b, 2))
             ELSE IF c >= 224 /\ c <= 239
                  THEN /\ n >= 3
                       /\ IsCont(b[2], IF c = 224 THEN 160 ELSE 128, IF c = 237 THEN 159 ELSE 191)
                       /\ IsCont(b[3], 128, 191)
                       /\ IsUtf8(Drop(b, 3))
             ELSE IF c >= 240 /\ c <= 244
                  THEN /\ n >= 4
                       /\ IsCont(b[2], IF c = 240 THEN 144 ELSE 128, IF c = 244 THEN 143 ELSE 191)
                       /\ IsCont(b[3], 128, 191)
                       /\ IsCont(b[4], 128, 191)
                       /\ IsUtf8(Drop(b, 4))
             ELSE FALSE

(***************************************************************************)
(* Decoder, src/src/de.rs.  The reader is a cursor over the byte string   *)
(* d at position p; length is Deserializer.length.                         *)
(***************************************************************************)
Deserializer_new(expected_length) == expected_length

\* Ok(u32) or the io error of a short read
pop_length(d, p) ==
    IF p + 4 <= Len(d) THEN [ok |-> TRUE, v |-> U32FromLE(SubSeq(d, p + 1, p + 4)), pos |-> p + 4]
    ELSE [ok |-> FALSE, v |-> U32Of(0), pos |-> p]

\* get_string after pop_length returned l
get_string_read(l, d) ==
    IF ~l.ok THEN [ok |-> FALSE, err |-> "EndOfBuffer", len |-> U32Of(0), s |-> <<>>, pos |-> l.pos]
    ELSE IF U32Exceeds(l.v, Len(d) - l.pos)
         THEN [ok |-> FALSE, err |-> "EndOfBuffer", len |-> U32Of(0), s |-> <<>>, pos |-> l.pos]
    ELSE IF IsUtf8(SubSeq(d, l.pos + 1, l.pos + l.v[2]))
         THEN [ok |-> TRUE, err |-> "none", len |-> U32Add(l.v, U32Of(4)),
               s |-> SubSeq(d, l.pos + 1, l.pos + l.v[2]), pos |-> l.pos + l.v[2]]
    ELSE [ok |-> FALSE, err |-> "BadStringData", len |-> U32Of(0),
          s |-> <<>>, pos |-> l.pos + l.v[2]]

get_string(d, p) == get_string_read(pop_length(d, p), d)

deserialize_bool(d, p) ==
    IF p + 1 <= Len(d) THEN DOk(Bool(d[p + 1] # 0), p + 1) ELSE DErr("EndOfBuffer", p)

deserialize_num(t, d, p) ==
    IF p + t.w <= Len(d)
    THEN LET be == Reverse(SubSeq(d, p + 1, p + t.w))
         IN  IF t.signed /\ be[1] >= 128
             THEN DOk(Num(t.signed, t.w, TRUE, Negate(be)), p + t.w)
             ELSE DOk(Num(t.signed, t.w, FALSE, be), p + t.w)
    ELSE DErr("EndOfBuffer", p)

visit_string(g) == IF g.ok THEN DOk(Text(g.s), g.pos) ELSE DErr(g.err, g.pos)

deserialize_string(d, p) == visit_string(get_string(d, p))

deserialize_char(p) == DErr("UnsupportedCharType", p)

\* an Option decoded as None
deserialize_option_absent(p) == DOk(None, p)

deserialize_option(p) == DErr("UnsupportedEnumType", p)

deserialize_enum(p) == DErr("UnsupportedEnumType", p)

deserialize_any(p) == DErr("UnsupportedDeserializerMethod", p)

deserialize_struct_field(p) == DErr("UnsupportedDeserializerMethod", p)

deserialize_ignored_any(p) == DErr("UnsupportedDeserializerMethod", p)

deserialize_unit(p) == DOk(Unit, p)

value_into_bytes(val) == serialize_str(val).out

\* a split on the last '=' instead of the first
FirstEq_last(s, i) ==
    LET js == {j \in i..Len(s) : s[j] = 61}
    IN  IF js = {} THEN 0 ELSE CHOOSE j \in js : \A x \in js : x <= j

\* str::splitn(2, '='): the index of the first '=' or 0
RECURSIVE FirstEq(_, _)
FirstEq(s, i) ==
    IF i > Len(s) THEN 0 ELSE IF s[i] = 61 THEN i ELSE FirstEq(s, i + 1)

\* a value that keeps the '=' in front of it
pop_item_split_keepsep(size, g, i) ==
    IF ~g.ok THEN [ok |-> FALSE, err |-> g.err, size |-> size, key |-> <<>>, value |-> <<>>, pos |-> g.pos]
    ELSE IF U32Lt(size, g.len)
         THEN [ok |-> FALSE, err |-> "BadMapEntry", size |-> size, key |-> <<>>, value |-> <<>>, pos |-> g.pos]
    ELSE IF i = 0
         THEN [ok |-> FALSE, err |-> "BadMapEntry", size |-> U32Sub(size, g.len),
               key |-> value_into_bytes(g.s), value |-> <<>>, pos |-> g.pos]
    ELSE [ok |-> TRUE, err |-> "none", size |-> U32Sub(size, g.len),
          key |-> value_into_bytes(Take(g.s, i - 1)),
          value |-> value_into_bytes(Drop(g.s, i - 1)), pos |-> g.pos]

\* MapVisitor::pop_item after get_string returned g, the entry split at
\* index i: the new budget, key and value, or the error
pop_item_split(size, g, i) ==
    IF ~g.ok THEN [ok |-> FALSE, err |-> g.err, size |-> size, key |-> <<>>, value |-> <<>>, pos |-> g.pos]
    ELSE IF U32Lt(size, g.len)
         THEN [ok |-> FALSE, err |-> "BadMapEntry", size |-> size, key |-> <<>>, value |-> <<>>, pos |-> g.pos]
    ELSE IF i = 0
         THEN [ok |-> FALSE, err |-> "BadMapEntry", size |-> U32Sub(size, g.len),
               key |-> value_into_bytes(g.s), value |-> <<>>, pos |-> g.pos]
    ELSE [ok |-> TRUE, err |-> "none", size |-> U32Sub(size, g.len),
          key |-> value_into_bytes(Take(g.s, i - 1)),
          value |-> value_into_bytes(Drop(g.s, i)), pos |-> g.pos]

\* an entry without '=' taken as a key with an empty value
pop_item_entry_lenient(size, g) ==
    pop_item_split(size, g, IF FirstEq(g.s, 1) = 0 THEN Len(g.s) + 1 ELSE FirstEq(g.s, 1))

pop_item_entry(size, g) == pop_item_split(size, g, FirstEq(g.s, 1))

pop_item(size, d, p) == pop_item_entry(size, get_string(d, p))

\* HashMap::insert
Insert(e, key, val) == {x \in e : x[1] # key} \cup {<<key, val>>}

RECURSIVE deserialize(_, _, _, _)
RECURSIVE SeqVisitor_visit(_, _, _, _, _, _)
RECURSIVE TupleVisitor_visit(_, _, _, _, _)
RECURSIVE MapVisitor_visit(_, _, _, _, _, _)


\* SeqVisitor::visit_seed under the visitor of Vec<T> or [T; n]: elements
\* are requested until the visitor has them all
SeqVisitor_next(t, len, d, r, length, acc) ==
    IF r.ok THEN SeqVisitor_visit(t, U32Sub(len, U32Of(1)), d, r.pos, length, Append(acc, r.val))
    ELSE r

SeqVisitor_visit(t, len, d, p, length, acc) ==
    IF U32IsZero(len) THEN DOk(acc, p)
    ELSE SeqVisitor_next(t, len, d, deserialize(t, d, p, length), length, acc)

\* TupleVisitor::visit_seed under the visitor of a tuple or struct: one
\* request per member
TupleVisitor_next(ts, d, r, length, acc) ==
    IF r.ok THEN TupleVisitor_visit(Tail(ts), d, r.pos, length, Append(acc, r.val))
    ELSE r

TupleVisitor_visit(ts, d, p, length, acc) ==
    IF ts = <<>> THEN DOk(acc, p)
    ELSE TupleVisitor_next(ts, d, deserialize(Head(ts), d, p, length), length, acc)

\* MapVisitor::visit_value_seed, then the next entry
visit_value_seed(t, it, kr, vr, d, length, acc) ==
    IF ~vr.ok THEN DErr(vr.err, it.pos)
    ELSE MapVisitor_visit(t, it.size, d, it.pos, length, Insert(acc, kr.val, vr.val))

\* MapVisitor::visit_key_seed after pop_item: the key is decoded by a
\* deserializer of its own over the bytes of the key
visit_key_seed_key(t, it, kr, d, length, acc) ==
    IF ~kr.ok THEN DErr(kr.err, it.pos)
    ELSE visit_value_seed(t, it, kr,
                          deserialize(t.vt, it.value, 0, Deserializer_new(U32Of(Len(it.value)))),
                          d, length, acc)

visit_key_seed(t, it, d, length, acc) ==
    IF ~it.ok THEN DErr(it.err, it.pos)
    ELSE visit_key_seed_key(t, it,
                            deserialize(t.kt, it.key, 0, Deserializer_new(U32Of(Len(it.key)))),
                            d, length, acc)

\* the visitor of HashMap: entries are requested until visit_key_seed
\* returns None
MapVisitor_visit(t, size, d, p, length, acc) ==
    IF U32IsZero(size) THEN DOk(acc, p)
    ELSE visit_key_seed(t, pop_item(size, d, p), d, length, acc)

\* a sequence that checks its element count against the envelope length
visit_seq_budgeted(t, l, d, p, length) ==
    IF ~l.ok THEN DErr("EndOfBuffer", p)
    ELSE IF U32Lt(length, l.v) THEN DErr("Overflow", l.pos)
    ELSE SeqVisitor_visit(t.t, l.v, d, l.pos, length, <<>>)

\* deserialize_seq after pop_length returned l: the count is the len of the
\* SeqVisitor
visit_seq(t, l, d, p, length) ==
    IF ~l.ok THEN DErr("EndOfBuffer", p)
    ELSE SeqVisitor_visit(t.t, l.v, d, l.pos, length, <<>>)

visit_vec(t, r) == IF r.ok THEN DOk(Vec(t.t, r.val), r.pos) ELSE r

visit_array(t, r) == IF r.ok THEN DOk(Array(t.t, r.val), r.pos) ELSE r

visit_tuple(r) == IF r.ok THEN DOk(Tuple(r.val), r.pos) ELSE r

visit_map(t, r) == IF r.ok THEN DOk(Map(t.kt, t.vt, r.val), r.pos) ELSE r

visit_newtype_struct(r) == IF r.ok THEN DOk(Newtype(r.val), r.pos) ELSE r

deserialize_seq(t, d, p, length) == visit_vec(t, visit_seq(t, pop_length(d, p), d, p, length))

\* deserialize_bytes, deserialize_byte_buf: deserialize_seq under the visitor
\* of a byte buffer, which asks for u8 elements
deserialize_bytes(d, p, length) ==
    IF deserialize_seq(TSeq(TNum(FALSE, 1)), d, p, length).ok
    THEN DOk(Bytes([i \in 1..Len(deserialize_seq(TSeq(TNum(FALSE, 1)), d, p, length).val.m) |->
                       deserialize_seq(TSeq(TNum(FALSE, 1)), d, p, length).val.m[i].mag[1]]),
             deserialize_seq(TSeq(TNum(FALSE, 1)), d, p, length).pos)
    ELSE deserialize_seq(TSeq(TNum(FALSE, 1)), d, p, length)

deserialize_seq_fixed_size(t, d, p, length) ==
    visit_array(t, SeqVisitor_visit(t.t, U32Of(t.n), d, p, length, <<>>))

\* a tuple that skips a length prefix of its own
deserialize_tuple_prefixed(t, d, p, length) ==
    visit_tuple(TupleVisitor_visit(t.ts, d, p + 4, length, <<>>))

deserialize_tuple(t, d, p, length) == visit_tuple(TupleVisitor_visit(t.ts, d, p, length, <<>>))

\* a map decode whose budget is what is left of the envelope length
deserialize_map_remaining(t, d, p, length) ==
    visit_map(t, MapVisitor_visit(t, IF U32Lt(length, U32Of(p - 4)) THEN U32Of(0)
                                     ELSE U32Sub(length, U32Of(p - 4)), d, p, length, {}))

deserialize_map(t, d, p, length) == visit_map(t, MapVisitor_visit(t, length, d, p, length, {}))

deserialize_newtype_struct(t, d, p, length) == visit_newtype_struct(deserialize(t.t, d, p, length))

deserialize(t, d, p, length) ==
    CASE t.k = "bool" -> deserialize_bool(d, p)
      [] t.k = "int" -> deserialize_num(t, d, p)
      [] t.k = "text" -> deserialize_string(d, p)
      [] t.k = "bytes" -> deserialize_bytes(d, p, length)
      [] t.k = "char" -> deserialize_char(p)
      [] t.k = "option" -> deserialize_option(p)
      [] t.k = "enum" -> deserialize_enum(p)
      [] t.k = "any" -> deserialize_any(p)
      [] t.k = "field" -> deserialize_struct_field(p)
      [] t.k = "ignored" -> deserialize_ignored_any(p)
      [] t.k = "unit" -> deserialize_unit(p)
      [] t.k = "newtype" -> deserialize_newtype_struct(t, d, p, length)
      [] t.k = "tuple" -> deserialize_tuple(t, d, p, length)
      [] t.k = "array" -> deserialize_seq_fixed_size(t, d, p, length)
      [] t.k = "seq" -> deserialize_seq(t, d, p, length)
      [] t.k = "map" -> deserialize_map(t, d, p, length)

\* from_reader after read_u32 returned l
from_reader_length(l, reader, t) ==
    IF ~l.ok THEN DErr("Io", 0)
    ELSE deserialize(t, reader, l.pos, Deserializer_new(l.v))

from_reader(reader, t) == from_reader_length(pop_length(reader, 0), reader, t)

from_slice(bytes, t) == from_reader(bytes, t)

from_str(s, t) == from_slice(s, t)

(***************************************************************************)
(* The values handed to to_vec.                                            *)
(***************************************************************************)
U8(n) == Num(FALSE, 1, FALSE, <<n>>)

I16(neg, hi, lo) == Num(TRUE, 2, neg, <<hi, lo>>)

Bools == {Bool(TRUE), Bool(FALSE)}

\* the integers of the tests of ser.rs and de.rs and of the example of lib.rs
Nums ==
    { U8(150), U8(0), U8(7), U8(255),
      Num(TRUE, 1, TRUE, <<100>>), Num(TRUE, 1, TRUE, <<128>>), Num(TRUE, 1, FALSE, <<127>>),
      Num(FALSE, 2, FALSE, <<162, 52>>),
      I16(FALSE, 8, 2), I16(TRUE, 117, 48), I16(FALSE, 4, 1), I16(TRUE, 0, 1), I16(FALSE, 0, 5),
      Num(FALSE, 4, FALSE, <<205, 1, 35, 69>>),
      Num(TRUE, 4, TRUE, <<119, 53, 148, 0>>),
      Num(FALSE, 8, FALSE, <<171, 152, 118, 84, 50, 16, 170, 187>>),
      Num(TRUE, 8, TRUE, <<124, 230, 108, 80, 226, 132, 0, 0>>) }

\* characters as their UTF-8 bytes: 'a', '='
Chars == {<<97>>, <<61>>}

Strings(n) == {Flatten(cs) : cs \in SeqsUpTo(Chars, n)}

\* "é" is one character of two bytes
Texts == {Text(s) : s \in Strings(MaxStrLen) \cup {<<195, 169>>}}

ShortTexts == {Text(s) : s \in Strings(1)}

Leaves == Bools \cup Nums \cup Texts

ElemSets ==
    { [t |-> TBool, vs |-> Bools],
      [t |-> TNum(FALSE, 1), vs |-> {U8(7), U8(150)}],
      [t |-> TNum(TRUE, 2), vs |-> {I16(FALSE, 8, 2), I16(TRUE, 0, 1)}],
      [t |-> TText, vs |-> ShortTexts] }

Vecs == UNION {{Vec(E.t, m) : m \in SeqsUpTo(E.vs, MaxLen)} : E \in ElemSets}

Arrays == UNION {{Array(E.t, m) : m \in SeqsUpTo(E.vs, MaxLen)} : E \in ElemSets}

TupleLeaves == Bools \cup {U8(7), I16(FALSE, 8, 2), I16(TRUE, 0, 1)} \cup ShortTexts

FlatTuples == {Tuple(m) : m \in SeqsUpTo(TupleLeaves, MaxLen)}

\* struct TestStructPart { a: String, b: bool }
Parts == {Tuple(<<Text(s), b>>) : s \in {<<>>, <<97>>}, b \in Bools}

TPart == TTuple(<<TText, TBool>>)

NestedMembers ==
    Parts \cup {Vec(TBool, <<>>), Vec(TBool, <<Bool(TRUE)>>), Array(TBool, <<Bool(TRUE)>>),
                Tuple(<<>>), Text(<<97>>), U8(7)}

NestedTuples == {Tuple(m) : m \in SeqsUpTo(NestedMembers, MaxLen)}

NestedVecs ==
    {Vec(TPart, m) : m \in SeqsUpTo(Parts, MaxLen)}
    \cup {Vec(TSeq(TBool), m) : m \in SeqsUpTo({Vec(TBool, <<>>), Vec(TBool, <<Bool(TRUE)>>)}, MaxLen)}

\* struct TestStructBig { a: Vec<TestStructPart>, b: String }
Bigs == {Tuple(<<v, Text(<<97>>)>>) : v \in {x \in NestedVecs : x.t = TPart}}

\* values that are empty, hold a '=' or hold it in the middle
MapValues == ShortTexts \cup {Text(<<97, 61, 97>>)}

MapPairs == {<<k, v>> : k \in ShortTexts, v \in MapValues}

\* a HashMap<String, String> as the entries in the order the encoder visits them
Maps ==
    {Map(TText, TText, e) : e \in {x \in SeqsUpTo(MapPairs, MaxLen) :
                                      \A i, j \in 1..Len(x) : x[i][1] = x[j][1] => i = j}}

\* HashMap<u32, String>, HashMap<String, bool>, HashMap<u8, u8>
NonTextMaps ==
    { Map(TNum(FALSE, 4), TText, <<<<Num(FALSE, 4, FALSE, <<0, 0, 0, 7>>), Text(<<97>>)>>>>),
      Map(TText, TBool, <<<<Text(<<97>>), Bool(TRUE)>>>>),
      Map(TNum(FALSE, 1), TNum(FALSE, 1), <<<<U8(7), U8(150)>>>>) }

Units == {Unit, Newtype(U8(7)), Newtype(Text(<<97>>)), Newtype(Tuple(<<U8(7), Bool(TRUE)>>))}

Unsupported ==
    { Char, None, Some(U8(7)), Variant, UnsizedSeq(TBool, <<Bool(TRUE)>>),
      Tuple(<<U8(7), Char>>), Tuple(<<Text(<<97>>), None>>),
      Vec(TEnum, <<Variant>>), Tuple(<<U8(7), UnsizedSeq(TBool, <<>>)>>),
      Newtype(Some(Text(<<97>>))), Array(TChar, <<Char>>),
      Tuple(<<Vec(TBool, <<Bool(TRUE)>>), Tuple(<<Text(<<97>>), Variant>>)>>),
      Vec(TTuple(<<TBool, TOption>>), <<Tuple(<<Bool(TRUE), None>>)>>),
      Tuple(<<Bool(TRUE), Char, None>>),
      Map(TText, TChar, <<<<Text(<<97>>), Char>>>>),
      Map(TText, TOption, <<<<Text(<<97>>), Text(<<97>>)>>, <<Text(<<>>), None>>>>) }

Values ==
    Leaves \cup Vecs \cup Arrays \cup FlatTuples \cup NestedTuples \cup NestedVecs \cup Bigs
    \cup Maps \cup NonTextMaps \cup Units \cup Unsupported
    \cup {Tuple(<<x, m>>) :
            x \in {U8(7), Text(<<97>>), Vec(TBool, <<Bool(TRUE)>>), Tuple(<<Bool(TRUE)>>),
                   Map(TText, TText, <<>>), Map(TText, TText, <<<<Text(<<97>>), Text(<<>>)>>>>)},
            m \in {Map(TText, TText, <<>>), Map(TText, TText, <<<<Text(<<98>>), Text(<<97>>)>>>>)}}
    \cup {Bytes(b) : b \in SeqsUpTo({7, 150}, MaxLen)}

\* target shapes the decoder does not support, alone and inside supported ones
UnsupportedTargets ==
    { TChar, TOption, TEnum, TAny, TField, TIgnored,
      TTuple(<<TNum(FALSE, 1), TChar>>), TTuple(<<TText, TOption>>),
      TTuple(<<TTuple(<<TBool, TEnum>>)>>), TSeq(TEnum), TArray(1, TAny),
      TNewtype(TIgnored), TMap(TText, TOption), TMap(TField, TText) }

\* inputs of the decodes into them: an envelope alone, a u8, a map of one
\* entry, a text, a sequence of one element, half an envelope
TargetInputs ==
    { <<0, 0, 0, 0>>, <<1, 0, 0, 0, 7>>, <<6, 0, 0, 0, 2, 0, 0, 0, 97, 61>>,
      <<5, 0, 0, 0, 1, 0, 0, 0, 97>>, <<1, 0>> }

\* the texts of map entries: with and without '=', ending in '=', empty
EntryTexts == {<<>>, <<97>>, <<97, 61>>, <<61, 97>>}

\* the bytes of up to MaxLen length-prefixed entries
EntryStreams == {Flatten([i \in 1..Len(es) |-> serialize_str(es[i]).out]) : es \in SeqsUpTo(EntryTexts, MaxLen)}

\* envelope lengths around n
Lengths(n) == {L \in {0, n - 1, n, n + 1} : L >= 0}

(***************************************************************************)
(* The ROSMSG layout of a value as the decoder reads it after the envelope *)
(* (the inputs of the tests of de.rs): members back to back, a count in    *)
(* front of the elements of a sequence, the entries of a map.              *)
(***************************************************************************)
RECURSIVE Wire(_)
Wire(v) ==
    CASE v.k \in {"bool", "int", "text", "bytes"} -> serialize(v).out
      [] v.k \in {"tuple", "array"} -> Flatten([i \in 1..Len(v.m) |-> Wire(v.m[i])])
      [] v.k = "seq" -> write_size(Len(v.m)) \o Flatten([i \in 1..Len(v.m) |-> Wire(v.m[i])])
      [] v.k = "map" -> Drop(serialize(v).out, 4)
      [] v.k = "newtype" -> Wire(v.v)
      [] OTHER -> <<>>

Trails == SeqsUpTo({1}, MaxTrail)

\* envelope lengths other than n: none, one byte short, one byte long
WrongLengths(n) == {L \in {0, n - 1, n + 1} : L >= 0 /\ L # n}

(***************************************************************************)
(* The state machine: one value is encoded with to_vec, then bytes are     *)
(* decoded with from_slice into the type of the value.                     *)
(***************************************************************************)
NoResult == [ok |-> FALSE, err |-> "none", val |-> Unit, pos |-> 0]

\* no SeqVisitor, TupleVisitor or MapVisitor has been made
NoVisitor ==
    [kind |-> "none", len |-> U32Of(0), size |-> U32Of(0), length |-> U32Of(0),
     fill |-> FALSE, build |-> "release", last |-> "new", requests |-> 0, yielded |-> 0,
     item |-> <<>>, reported |-> U32Of(0), drawn |-> <<>>]

Init ==
    /\ value \in Values
    /\ writer = <<>>
    /\ werr = "none"
    /\ data = <<>>
    /\ ty = TUnit
    /\ result = NoResult
    /\ pos = 0
    /\ pc = "start"
    /\ visitor = NoVisitor

Written(r) == writer' = r.out /\ werr' = r.err

\* to_vec(&value)
ToVec ==
    /\ pc = "start"
    /\ Written(to_vec(value))
    /\ pc' = "encoded"
    /\ UNCHANGED <<value, data, ty, result, pos, visitor>>

ReturnAs(bytes, t, r, how) ==
    /\ data' = bytes
    /\ ty' = t
    /\ result' = r
    /\ pos' = r.pos
    /\ pc' = how
    /\ UNCHANGED <<value, writer, werr, visitor>>

Return(bytes, r, how) == ReturnAs(bytes, TypeOf(value), r, how)

DecodeAs(bytes, t, how) == ReturnAs(bytes, t, from_slice(bytes, t), how)

Decode(bytes, how) == Return(bytes, from_slice(bytes, TypeOf(value)), how)

\* from_slice(&to_vec(&value))
FromSliceOwn ==
    /\ pc = "encoded"
    /\ werr = "none"
    /\ Decode(writer, "decoded")

\* from_slice of an envelope of the length of the layout, the layout of the
\* value and trailing bytes
FromSliceWire ==
    /\ pc = "encoded"
    /\ werr = "none"
    /\ \E trail \in Trails : Decode(write_size(Len(Wire(value))) \o Wire(value) \o trail, "framed")

\* from_slice of any envelope length L in front of the layout of the value
FromSliceAnyLength ==
    /\ pc = "encoded"
    /\ werr = "none"
    /\ \E L \in WrongLengths(Len(Wire(value))), trail \in Trails :
          Decode(write_size(L) \o Wire(value) \o trail, "misframed")

\* from_slice of a source that ends before the layout of the value does
FromSliceTruncated ==
    /\ pc = "encoded"
    /\ werr = "none"
    /\ \E n \in 0..(3 + Len(Wire(value))) :
          Decode(Take(write_size(Len(Wire(value))) \o Wire(value), n), "truncated")

\* from_slice::<HashMap<String, String>> of an envelope length L and the
\* first n bytes of a stream of entries
FromSliceEntries ==
    /\ pc = "start"
    /\ value = Unit
    /\ \E es \in EntryStreams : \E L \in Lengths(Len(es)), n \in 0..Len(es) :
          DecodeAs(write_size(L) \o Take(es, n), TMap(TText, TText), "entries")

\* from_slice::<T> for a T the decoder does not support
FromSliceTarget ==
    /\ pc = "start"
    /\ value = Unit
    /\ \E t \in UnsupportedTargets, bytes \in TargetInputs : DecodeAs(bytes, t, "target")

\* from_slice::<bool>, from_slice::<u8> of any payload byte and
\* from_slice::<i16> of two payload bytes behind their envelope
FromSliceScalar ==
    /\ pc = "start"
    /\ value = Unit
    /\ \/ \E t \in {TBool, TNum(FALSE, 1)}, b \in 0..255 : DecodeAs(write_size(1) \o <<b>>, t, "scalar")
       \/ \E lo, hi \in {0, 1, 128, 255} : DecodeAs(write_size(2) \o <<lo, hi>>, TNum(TRUE, 2), "scalar")

\* to_vec(&decoded) of the value a decode returned
ToVecDecoded ==
    /\ pc = "scalar"
    /\ result.ok
    /\ Written(to_vec(result.val))
    /\ pc' = "reencoded"
    /\ UNCHANGED <<value, data, ty, result, pos, visitor>>

Next ==
    \/ ToVec
    \/ FromSliceOwn
    \/ FromSliceWire
    \/ FromSliceAnyLength
    \/ FromSliceTruncated
    \/ FromSliceEntries
    \/ FromSliceTarget
    \/ FromSliceScalar
    \/ ToVecDecoded

Spec == Init /\ [][Next]_vars

(***************************************************************************)
(* The visitors of de.rs one request at a time.  The Deserializer has been *)
(* made by from_reader (the envelope is read, length holds it); its reader *)
(* is data at position pos, followed when visitor.fill by an endless run   *)
(* of the byte 'a' (io::Read::chain of io::repeat), so that a text of any  *)
(* declared length can be read.  visitor.drawn lists the number of bytes   *)
(* each read took from that run.  visitor.build is the build profile: u32  *)
(* addition that overflows panics under "debug" and wraps under "release". *)
(***************************************************************************)
\* Deserializer::get_string on the chained reader: the head part of the text
\* is s, the rest of it is bytes 'a'
get_string_chain(d, p, build) ==
    LET l == U32FromLE([i \in 1..4 |-> IF p + i <= Len(d) THEN d[p + i] ELSE 97])
        h == IF p + 4 >= Len(d) THEN <<>> ELSE SubSeq(d, p + 5, Len(d))
        fits == l[1] = 0 /\ l[2] <= Len(h)
        s == IF fits THEN Take(h, l[2]) ELSE h
        q == IF fits THEN p + 4 + l[2] ELSE Len(d)
    IN  IF ~IsUtf8(s)
        THEN [ok |-> FALSE, err |-> "BadStringData", len |-> U32Of(0), s |-> <<>>, pos |-> q]
        ELSE IF build = "debug" /\ l[1] = Limb - 1 /\ l[2] >= Limb - 4
        THEN [ok |-> FALSE, err |-> "panic", len |-> U32Of(0), s |-> <<>>, pos |-> q]
        ELSE [ok |-> TRUE, err |-> "none", len |-> U32Add(l, U32Of(4)), s |-> s, pos |-> q]

\* the number of bytes that read takes from the run (0 when the head holds
\* it all)
chain_drawn(d, p) ==
    LET l == U32FromLE([i \in 1..4 |-> IF p + i <= Len(d) THEN d[p + i] ELSE 97])
        h == IF p + 4 >= Len(d) THEN <<>> ELSE SubSeq(d, p + 5, Len(d))
    IN  IF l[1] = 0 /\ l[2] <= Len(h) THEN U32Of(0)
        ELSE U32Add(U32Sub(l, U32Of(Len(h))), U32Of(IF p + 4 > Len(d) THEN p + 4 - Len(d) ELSE 0))

\* the visitor after a request that was answered by the decode result r
Answered(v, r) ==
    [v EXCEPT !.last = IF r.ok THEN "some" ELSE r.err,
              !.yielded = IF r.ok THEN @ + 1 ELSE @,
              !.requests = @ + 1]

\* a visit_seed that does not count down
SeqVisitor_visit_seed_nocount(v, t, d, p) ==
    IF ~U32IsZero(v.len)
    THEN [v |-> Answered(v, deserialize(t, d, p, v.length)), pos |-> deserialize(t, d, p, v.length).pos]
    ELSE [v |-> [v EXCEPT !.last = "end", !.requests = @ + 1], pos |-> p]

\* SeqVisitor::visit_seed
SeqVisitor_visit_seed(v, t, d, p) ==
    IF ~U32IsZero(v.len)
    THEN [v |-> Answered([v EXCEPT !.len = U32Sub(v.len, U32Of(1))], deserialize(t, d, p, v.length)),
          pos |-> deserialize(t, d, p, v.length).pos]
    ELSE [v |-> [v EXCEPT !.last = "end", !.requests = @ + 1], pos |-> p]

\* TupleVisitor::visit_seed
TupleVisitor_visit_seed(v, t, d, p) ==
    [v |-> Answered(v, deserialize(t, d, p, v.length)), pos |-> deserialize(t, d, p, v.length).pos]

\* MapVisitor::visit_key_seed after get_string returned g and pop_item it:
\* the key is decoded by a deserializer of its own over the bytes of the key;
\* drawn is what the read took from the run
MapVisitor_popped(v, t, g, it, drawn) ==
    [v |-> [v EXCEPT !.size = it.size,
                     !.last = IF ~it.ok THEN it.err
                              ELSE IF deserialize(t.kt, it.key, 0, Deserializer_new(U32Of(Len(it.key)))).ok
                                   THEN "key"
                              ELSE deserialize(t.kt, it.key, 0, Deserializer_new(U32Of(Len(it.key)))).err,
                     !.item = it.value,
                     !.reported = g.len,
                     !.drawn = IF g.ok THEN Append(@, drawn) ELSE @,
                     !.requests = @ + 1],
     pos |-> g.pos]

\* MapVisitor::visit_key_seed
MapVisitor_visit_key_seed(v, t, d, p) ==
    IF U32IsZero(v.size) THEN [v |-> [v EXCEPT !.last = "end", !.requests = @ + 1], pos |-> p]
    ELSE IF v.fill
         THEN MapVisitor_popped(v, t, get_string_chain(d, p, v.build),
                                pop_item_entry(v.size, get_string_chain(d, p, v.build)), chain_drawn(d, p))
    ELSE MapVisitor_popped(v, t, get_string(d, p), pop_item_entry(v.size, get_string(d, p)), U32Of(0))

\* MapVisitor::visit_value_seed
MapVisitor_visit_value_seed(v, t) ==
    [Answered(v, deserialize(t.vt, v.item, 0, Deserializer_new(U32Of(Len(v.item)))))
        EXCEPT !.requests = v.requests]

\* what the visitors read: an envelope and the layout of a value, whole,
\* with a trailing byte or cut short; and on the chained reader a map whose
\* entry declares one of the largest lengths (2^32-1, 2^32-4, 2^32-5)
VisitSources ==
    UNION {{[t |-> TypeOf(v), fill |-> FALSE, bytes |-> b] :
              b \in { write_size(Len(Wire(v))) \o Wire(v),
                      write_size(Len(Wire(v))) \o Wire(v) \o <<1>>,
                      write_size(Len(Wire(v))) \o Take(Wire(v), Len(Wire(v)) - 1) }} :
           v \in Vecs \cup Arrays \cup FlatTuples
                 \cup {m \in Maps : \A i \in 1..Len(m.e) : Len(m.e[i][2].s) <= 1}}
    \cup {[t |-> TMap(TText, TText), fill |-> TRUE,
           bytes |-> write_size(L) \o <<lo, 255, 255, 255>> \o h] :
             L \in {2, 3, 9}, lo \in {255, 252, 251}, h \in {<<>>, <<97, 61>>, <<61>>}}

InitVisit ==
    /\ value = Unit
    /\ writer = <<>>
    /\ werr = "none"
    /\ result = NoResult
    /\ pc = "visit"
    /\ pos = 4
    /\ \E src \in VisitSources, build \in {"debug", "release"} :
          /\ data = src.bytes
          /\ ty = src.t
          /\ visitor = [NoVisitor EXCEPT !.length = Deserializer_new(U32FromLE(Take(src.bytes, 4))),
                                         !.fill = src.fill, !.build = build]

\* deserialize_seq: the count is read, visitor.visit_seq(SeqVisitor)
DeserializeSeq ==
    /\ visitor.kind = "none"
    /\ ty.k = "seq"
    /\ visitor' = IF pop_length(data, pos).ok
                  THEN [visitor EXCEPT !.kind = "seq", !.len = pop_length(data, pos).v]
                  ELSE [visitor EXCEPT !.kind = "failed", !.last = "EndOfBuffer"]
    /\ pos' = IF pop_length(data, pos).ok THEN pop_length(data, pos).pos ELSE pos
    /\ UNCHANGED <<value, writer, werr, data, ty, result, pc>>

\* deserialize_seq_fixed_size: visitor.visit_seq(SeqVisitor) with the len given
DeserializeSeqFixedSize ==
    /\ visitor.kind = "none"
    /\ ty.k = "array"
    /\ visitor' = [visitor EXCEPT !.kind = "seq", !.len = U32Of(ty.n)]
    /\ UNCHANGED <<value, writer, werr, data, ty, result, pos, pc>>

\* deserialize_tuple, deserialize_tuple_struct, deserialize_struct
DeserializeTuple ==
    /\ visitor.kind = "none"
    /\ ty.k = "tuple"
    /\ visitor' = [visitor EXCEPT !.kind = "tuple"]
    /\ UNCHANGED <<value, writer, werr, data, ty, result, pos, pc>>

\* deserialize_map: the budget of the MapVisitor is Deserializer.length
DeserializeMap ==
    /\ visitor.kind = "none"
    /\ ty.k = "map"
    /\ visitor' = [visitor EXCEPT !.kind = "map", !.size = visitor.length]
    /\ UNCHANGED <<value, writer, werr, data, ty, result, pos, pc>>

\* a request of the serde visitor to the SeqVisitor; requests end with an
\* error
VisitSeq ==
    /\ visitor.kind = "seq"
    /\ visitor.requests < MaxRequests
    /\ visitor.last \in {"new", "some", "end"}
    /\ visitor' = SeqVisitor_visit_seed(visitor, ty.t, data, pos).v
    /\ pos' = SeqVisitor_visit_seed(visitor, ty.t, data, pos).pos
    /\ UNCHANGED <<value, writer, werr, data, ty, result, pc>>

\* a request to the TupleVisitor: for the members in order, then for a u8
VisitTuple ==
    /\ visitor.kind = "tuple"
    /\ visitor.requests < MaxRequests
    /\ visitor.last \in {"new", "some", "end"}
    /\ \E t \in {IF visitor.yielded < Len(ty.ts) THEN ty.ts[visitor.yielded + 1] ELSE TNum(FALSE, 1)} :
          /\ visitor' = TupleVisitor_visit_seed(visitor, t, data, pos).v
          /\ pos' = TupleVisitor_visit_seed(visitor, t, data, pos).pos
    /\ UNCHANGED <<value, writer, werr, data, ty, result, pc>>

VisitMapKey ==
    /\ visitor.kind = "map"
    /\ visitor.requests < MaxRequests
    /\ visitor.last \in {"new", "some", "end"}
    /\ visitor' = MapVisitor_visit_key_seed(visitor, ty, data, pos).v
    /\ pos' = MapVisitor_visit_key_seed(visitor, ty, data, pos).pos
    /\ UNCHANGED <<value, writer, werr, data, ty, result, pc>>

VisitMapValue ==
    /\ visitor.kind = "map"
    /\ visitor.last = "key"
    /\ visitor' = MapVisitor_visit_value_seed(visitor, ty)
    /\ UNCHANGED <<value, writer, werr, data, ty, result, pos, pc>>

NextVisit ==
    \/ DeserializeSeq
    \/ DeserializeSeqFixedSize
    \/ DeserializeTuple
    \/ DeserializeMap
    \/ VisitSeq
    \/ VisitTuple
    \/ VisitMapKey
    \/ VisitMapValue

SpecVisit == InitVisit /\ [][NextVisit]_vars

TypeOK ==
    /\ pc \in {"start", "encoded", "decoded", "framed", "misframed", "truncated", "entries", "target", "visit", "scalar", "reencoded"}
    /\ \A i \in 1..Len(writer) : writer[i] \in 0..255
    /\ \A i \in 1..Len(data) : data[i] \in 0..255

(***************************************************************************)
(* Vocabulary of the properties.                                           *)
(***************************************************************************)
\* a value up to the order of the entries of its maps: a map as the set of
\* its entries
RECURSIVE Canon(_)
Canon(v) ==
    CASE v.k \in {"tuple", "array", "seq"} -> [v EXCEPT !.m = [i \in 1..Len(v.m) |-> Canon(v.m[i])]]
      [] v.k = "map" -> [v EXCEPT !.e = {<<Canon(x[1]), Canon(x[2])>> : x \in Range(v.e)}]
      [] v.k = "newtype" -> [v EXCEPT !.v = Canon(v.v)]
      [] OTHER -> v

\* the number a little-endian byte string of at most 3 significant bytes denotes
RECURSIVE LEValue(_)
LEValue(b) == IF b = <<>> THEN 0 ELSE Head(b) + 256 * LEValue(Tail(b))

\* the first four bytes of b are the little-endian number n (n < 2^24)
HasLE32(b, n) == Len(b) >= 4 /\ LEValue(SubSeq(b, 1, 3)) = n /\ b[4] = 0

IsScalar(v) == v.k \in {"bool", "int"}

IsLeaf(v) == v.k \in {"bool", "int", "text"}

IsFixed(v) == v.k \in {"tuple", "array"}

IsVec(v) == v.k = "seq" /\ v.len

IsFlatContainer(v) == (IsFixed(v) \/ IsVec(v)) /\ \A i \in 1..Len(v.m) : IsLeaf(v.m[i])

\* tuples, arrays and sequences of supported members at any depth, no map
RECURSIVE IsContainerTree(_)
IsContainerTree(v) ==
    \/ IsLeaf(v)
    \/ (IsFixed(v) \/ IsVec(v)) /\ \A i \in 1..Len(v.m) : IsContainerTree(v.m[i])

RECURSIVE Depth(_)
Depth(v) ==
    IF v.k \in {"tuple", "array", "seq"}
    THEN 1 + (IF v.m = <<>> THEN 0
              ELSE LET ds == {Depth(v.m[i]) : i \in 1..Len(v.m)}
                   IN  CHOOSE x \in ds : \A y \in ds : y <= x)
    ELSE 0

Encoded == pc # "start" /\ werr = "none"

Decoded == pc \in {"decoded", "framed", "misframed"}

\* the values C1 names: scalars, text, tuples, structs, fixed arrays and
\* sequences of them at any depth, and string-to-string maps
IsSupported(v) ==
    \/ IsContainerTree(v)
    \/ v.k = "map" /\ v.kt = TText /\ v.vt = TText /\ \A i \in 1..Len(v.e) : 61 \notin Range(v.e[i][1].s)

\* C1: for every supported value v (scalar, text, tuple, struct, fixed array,
\* sequence, string-to-string map, nested or not), from_slice(to_vec(v))
\* succeeds and returns a value equal to v.
C1_RoundTrip ==
    (pc = "decoded" /\ IsSupported(value)) => (result.ok /\ result.val = Canon(value))

IsStringMap(v) == v.k = "map" /\ v.kt = TText /\ v.vt = TText

NoEqInKeys(v) == \A i \in 1..Len(v.e) : 61 \notin Range(v.e[i][1].s)

C3_MapRoundTrip ==
    (pc = "decoded" /\ IsStringMap(value) /\ NoEqInKeys(value)) =>
        /\ result.ok
        /\ result.val = Canon(value)

C3_Witness ==
    /\ pc = "decoded"
    /\ IsStringMap(value)
    /\ NoEqInKeys(value)
    /\ Len(value.e) = 2
    /\ value.e[1][2].s = <<97, 61, 97>>
    /\ value.e[2][2].s = <<>>
    /\ result.ok
    /\ Cardinality(result.val.e) = 2

C5_TextEnveloped ==
    (Encoded /\ value.k = "text") =>
        /\ Len(writer) = 8 + Len(value.s)
        /\ HasLE32(writer, Len(value.s) + 4)
        /\ HasLE32(Drop(writer, 4), Len(value.s))
        /\ Drop(writer, 8) = value.s
        /\ (pc = "decoded" => result.ok /\ result.val = value)

\* C6: for every integer x of width w in {1,2,4,8} bytes, signed or unsigned,
\* to_vec(x) is exactly the w little-endian two's-complement bytes of x with
\* no prefix (bool is the single byte 1 or 0), and from_slice of a 4-byte
\* envelope followed by those w bytes returns x.
RECURSIVE SumsToZero(_, _, _)
SumsToZero(a, b, carry) ==
    IF a = <<>> THEN carry = 1
    ELSE /\ (Head(a) + Head(b) + carry) % 256 = 0
         /\ SumsToZero(Tail(a), Tail(b), (Head(a) + Head(b) + carry) \div 256)

\* b is the little-endian two's-complement layout of the integer v: its
\* digits least significant first, or for a negative v the digits that added
\* to those of |v| give 2^(8w)
IsLELayout(v, b) ==
    /\ Len(b) = v.w
    /\ IF v.neg THEN SumsToZero(b, [i \in 1..v.w |-> v.mag[v.w + 1 - i]], 0)
       ELSE \A i \in 1..v.w : b[i] = v.mag[v.w + 1 - i]

C7_AggregateNoPrefix ==
    (Encoded /\ IsFixed(value) /\ value.m # <<>>) =>
        writer = Flatten([i \in 1..Len(value.m) |-> to_vec(value.m[i]).out])

\* C8: every tuple, struct and fixed-size array is emitted as LE32(n) followed
\* by the n bytes of its member encodings in declared order, every
\* variable-length sequence as LE32(4+n), LE32(element count) and the n bytes
\* of its elements, at every nesting depth.
LE32(n) == <<n % 256, (n \div 256) % 256, (n \div 65536) % 256, n \div 16777216>>

RECURSIVE EncoderTestLayout(_)
EncoderTestLayout(v) ==
    IF IsLeaf(v) THEN to_vec(v).out
    ELSE LET body == Flatten([i \in 1..Len(v.m) |-> EncoderTestLayout(v.m[i])])
         IN  IF IsFixed(v) THEN LE32(Len(body)) \o body
             ELSE LE32(4 + Len(body)) \o LE32(Len(v.m)) \o body

C9_DecodeNoPrefix ==
    (pc = "framed" /\ IsContainerTree(value) /\ ~IsLeaf(value)) =>
        /\ result.ok
        /\ result.val = value
        /\ pos = 4 + Len(Wire(value))

C9_Witness ==
    /\ pc = "framed"
    /\ IsContainerTree(value)
    /\ Depth(value) = 3
    /\ Len(value.m[1].m) = 2
    /\ result.ok
    /\ pos < Len(data)

\* C10: from_slice reads one leading 4-byte length L and then decodes exactly
\* L bytes as T: a successful decode has consumed exactly the L bytes that
\* follow the prefix.
C10_ConsumesExactlyL ==
    (Decoded /\ IsSupported(value) /\ result.ok) => U32FromLE(Take(data, 4)) = U32Of(pos - 4)

\* C11: for every target shape that contains no map the outcome of from_slice
\* (the value or the error) is the same for every leading 4-byte length and
\* does not depend on the bytes after those the decode consumes: trailing
\* bytes are not an error.
RECURSIVE HasMap(_)
HasMap(t) ==
    CASE t.k = "map" -> TRUE
      [] t.k = "tuple" -> \E i \in 1..Len(t.ts) : HasMap(t.ts[i])
      [] t.k \in {"array", "seq", "newtype"} -> HasMap(t.t)
      [] OTHER -> FALSE

Envelopes == {<<0, 0, 0, 0>>, <<1, 0, 0, 0>>, <<255, 255, 255, 255>>}

Tails == {<<>>, <<1>>, <<0, 255>>}

EntryText(pair) == pair[1].s \o <<61>> \o pair[2].s

EntryBytes(pair) == LE32(Len(EntryText(pair))) \o EntryText(pair)

RECURSIVE EntrySizes(_)
EntrySizes(es) ==
    IF es = <<>> THEN 0 ELSE 4 + Len(Head(es)[1].s) + 1 + Len(Head(es)[2].s) + EntrySizes(Tail(es))

C12_MapLayout ==
    (Encoded /\ IsStringMap(value)) =>
        /\ writer = LE32(EntrySizes(value.e)) \o Flatten([i \in 1..Len(value.e) |-> EntryBytes(value.e[i])])
        /\ Len(writer) = 4 + EntrySizes(value.e)
        /\ (value.e = <<>> => writer = <<0, 0, 0, 0>>)

C12_Witness ==
    /\ pc = "encoded"
    /\ werr = "none"
    /\ IsStringMap(value)
    /\ Len(value.e) = 2
    /\ value.e[2][2].s = <<97, 61, 97>>
    /\ Len(writer) = 18

\* C13: decoding a string map from LE32(L) and length-prefixed entries whose
\* sizes (4 + payload each) sum to L returns the map that has, for each entry,
\* the text before the first '=' as key and all the text after it as value;
\* with L = 0 it returns the empty map and reads no entry.
IsMapDecode == pc \notin {"start", "encoded"} /\ ty = TMap(TText, TText) /\ Len(data) >= 4

\* the key and the value of the entry text t
Splits(t) ==
    {<<Text(Take(t, j - 1)), Text(Drop(t, j))>> :
        j \in {x \in 1..Len(t) : t[x] = 61 /\ \A y \in 1..(x - 1) : t[y] # 61}}

C13_MapDecode ==
    /\ (pc = "framed" /\ IsStringMap(value)) =>
          /\ result.ok
          /\ result.val.k = "map"
          /\ pos = 4 + EntrySizes(value.e)
          /\ \A x \in result.val.e : \E i \in 1..Len(value.e) : x \in Splits(EntryText(value.e[i]))
          /\ \A i \in 1..Len(value.e) : \A x \in Splits(EntryText(value.e[i])) :
                \/ x \in result.val.e
                \/ \E j \in (i + 1)..Len(value.e) : \E y \in Splits(EntryText(value.e[j])) : y[1] = x[1]
    /\ (IsMapDecode /\ Take(data, 4) = <<0, 0, 0, 0>>) =>
          /\ result.ok
          /\ result.val = Map(TText, TText, {})
          /\ pos = 4

C13_Witness ==
    /\ pc = "framed"
    /\ IsStringMap(value)
    /\ Len(value.e) = 2
    /\ value.e[1][1].s = <<61>>
    /\ value.e[2][2].s = <<97, 61, 97>>
    /\ result.ok
    /\ Cardinality(result.val.e) = 2
    /\ pos = Len(data) - 1

\* how the decode of the entries of d from position p under the budget ends:
\* "done" at budget zero, "nolength" and "short" when the source ends before
\* a length or a payload, "over" and "over_short" at an entry longer than the
\* budget (the source holding it or not), "noeq" at an entry without '='
RECURSIVE Walk(_, _, _)
Walk(d, p, budget) ==
    IF budget = 0 THEN "done"
    ELSE IF p + 4 > Len(d) THEN "nolength"
    ELSE LET n == LEValue(SubSeq(d, p + 1, p + 3))
         IN  IF 4 + n > budget THEN (IF p + 4 + n <= Len(d) THEN "over" ELSE "over_short")
             ELSE IF p + 4 + n > Len(d) THEN "short"
             ELSE IF 61 \notin Range(SubSeq(d, p + 5, p + 4 + n)) THEN "noeq"
             ELSE Walk(d, p + 4 + n, budget - 4 - n)

WalkEnd == Walk(data, 4, LEValue(SubSeq(data, 1, 3)))

\* C14: in a map decode an entry whose declared length, with its 4-byte
\* length field, exceeds the remaining budget makes the decode fail with
\* BadMapEntry, whether or not the source holds that many bytes, and no map
\* is returned.
C14_OverBudgetIsBadMapEntry ==
    (IsMapDecode /\ WalkEnd \in {"over", "over_short"}) =>
        (~result.ok /\ result.err = "BadMapEntry" /\ result.val = Unit)

\* C15: in a map decode an entry whose text has no '=' (an entry of length 0
\* too) makes the decode fail with BadMapEntry and no map is returned; an
\* entry that ends in '=' is accepted and has the empty value.
C15_NoSeparator ==
    /\ (IsMapDecode /\ WalkEnd = "noeq") =>
          (~result.ok /\ result.err = "BadMapEntry" /\ result.val = Unit)
    /\ (IsMapDecode /\ WalkEnd = "done") => result.ok
    /\ (IsMapDecode /\ Len(data) >= 10 /\ Take(data, 10) = <<6, 0, 0, 0, 2, 0, 0, 0, 97, 61>>) =>
          result.val = Map(TText, TText, {<<Text(<<97>>), Text(<<>>)>>})
    /\ (IsMapDecode /\ Len(data) >= 8 /\ Take(data, 8) = <<4, 0, 0, 0, 0, 0, 0, 0>>) =>
          result.err = "BadMapEntry"

C15_Witness ==
    /\ pc = "entries"
    /\ WalkEnd = "noeq"
    /\ data = <<11, 0, 0, 0, 2, 0, 0, 0, 97, 61, 1, 0, 0, 0, 97>>
    /\ result.err = "BadMapEntry"

\* C16: a map decode goes on until its budget is exactly zero; the budget
\* reaching zero in the middle of an entry, and the budget never reaching
\* zero because the source holds fewer entry bytes than L declares, are both
\* BadMapEntry or Underflow failures.
C16_BudgetMissed ==
    (IsMapDecode /\ WalkEnd \in {"over", "over_short", "nolength", "short"}) =>
        (~result.ok /\ result.err \in {"BadMapEntry", "Underflow"})

\* C17: a value that contains, at any depth, a char, an Option (None or
\* Some), an enum variant or a sequence without an element count makes
\* to_writer/to_vec fail with UnsupportedCharType, UnsupportedEnumType or
\* VariableArraySizeAnnotation respectively, and then no byte has been
\* written to the sink of the caller.
RejectionOf(v) ==
    CASE v.k = "char" -> {"UnsupportedCharType"}
      [] v.k \in {"none", "some", "variant"} -> {"UnsupportedEnumType"}
      [] v.k = "seq" /\ ~v.len -> {"VariableArraySizeAnnotation"}
      [] OTHER -> {}

\* the errors of the unsupported parts of v
RECURSIVE Rejections(_)
Rejections(v) ==
    RejectionOf(v) \cup
    CASE v.k \in {"tuple", "array", "seq"} -> UNION {Rejections(v.m[i]) : i \in 1..Len(v.m)}
      [] v.k = "map" -> UNION {Rejections(v.e[i][1]) \cup Rejections(v.e[i][2]) : i \in 1..Len(v.e)}
      [] v.k \in {"newtype", "some"} -> Rejections(v.v)
      [] OTHER -> {}

C17_EncodeRejectsAtomically ==
    (pc # "start" /\ Rejections(value) # {}) =>
        /\ werr \in Rejections(value)
        /\ writer = <<>>

C17_Witness ==
    /\ pc = "encoded"
    /\ value = Tuple(<<Vec(TBool, <<Bool(TRUE)>>), Tuple(<<Text(<<97>>), Variant>>)>>)
    /\ werr = "UnsupportedEnumType"
    /\ writer = <<>>

\* C18: a request to decode a char, an Option, an enum, a self-describing
\* (any) value, a struct-field identifier or an ignored value fails with
\* UnsupportedCharType, UnsupportedEnumType or UnsupportedDeserializerMethod;
\* the rejecting step reads no byte of the source and the top-level call
\* returns an error and no value.
IsRejected(t) == t.k \in {"char", "option", "enum", "any", "field", "ignored"}

RejectError(t) ==
    CASE t.k = "char" -> "UnsupportedCharType"
      [] t.k \in {"option", "enum"} -> "UnsupportedEnumType"
      [] t.k \in {"any", "field", "ignored"} -> "UnsupportedDeserializerMethod"

\* the decode failed with e having read the source up to p
FailedAt(e, p) == ~result.ok /\ result.err = e /\ result.val = Unit /\ pos = p

IsTargetDecode == pc = "target" /\ Len(data) >= 4

C18_DecodeRejectsImmediately ==
    /\ (IsTargetDecode /\ IsRejected(ty)) => FailedAt(RejectError(ty), 4)
    /\ (IsTargetDecode /\ ty.k = "newtype" /\ IsRejected(ty.t)) => FailedAt(RejectError(ty.t), 4)
    /\ (IsTargetDecode /\ ty.k = "array" /\ ty.n > 0 /\ IsRejected(ty.t)) => FailedAt(RejectError(ty.t), 4)
    /\ (IsTargetDecode /\ ty.k = "seq" /\ IsRejected(ty.t) /\ Len(data) >= 8
            /\ SubSeq(data, 5, 8) # <<0, 0, 0, 0>>) => FailedAt(RejectError(ty.t), 8)
    /\ (IsTargetDecode /\ ty.k = "tuple" /\ ty.ts # <<>> /\ IsRejected(ty.ts[Len(ty.ts)])
            /\ from_slice(data, TTuple(Take(ty.ts, Len(ty.ts) - 1))).ok) =>
          FailedAt(RejectError(ty.ts[Len(ty.ts)]), from_slice(data, TTuple(Take(ty.ts, Len(ty.ts) - 1))).pos)
    /\ (IsTargetDecode /\ ty = TTuple(<<TTuple(<<TBool, TEnum>>)>>) /\ Len(data) >= 5) =>
          FailedAt("UnsupportedEnumType", 5)
    /\ (IsTargetDecode /\ ty = TMap(TText, TOption) /\ data = <<6, 0, 0, 0, 2, 0, 0, 0, 97, 61>>) =>
          (~result.ok /\ result.err = "UnsupportedEnumType" /\ result.val = Unit)
    /\ (IsTargetDecode /\ ty = TMap(TField, TText) /\ data = <<6, 0, 0, 0, 2, 0, 0, 0, 97, 61>>) =>
          (~result.ok /\ result.err = "UnsupportedDeserializerMethod" /\ result.val = Unit)

C18_Witness ==
    /\ pc = "target"
    /\ ty = TTuple(<<TText, TOption>>)
    /\ data = <<5, 0, 0, 0, 1, 0, 0, 0, 97>>
    /\ FailedAt("UnsupportedEnumType", 9)

\* C19: a map whose key or value type is not text is rejected and never
\* attempted: encoding one fails instead of emitting an entry, and decoding
\* into one fails instead of producing a key or a value.
IsNonTextMap(t) == t.k = "map" /\ (t.kt # TText \/ t.vt # TText)

C19_NonTextMapsRejected ==
    /\ (pc # "start" /\ IsNonTextMap(value)) => (werr # "none" /\ writer = <<>>)
    /\ (pc \notin {"start", "encoded"} /\ IsNonTextMap(ty) /\ Len(data) >= 4
            /\ Take(data, 4) # <<0, 0, 0, 0>>) => ~result.ok

\* C20: every decode failure caused by the source being exhausted before a
\* declared length or field could be read in full is an EndOfBuffer: an input
\* shorter than the 4-byte envelope length, a scalar with fewer bytes left
\* than its width, a truncated 4-byte text length or sequence count, a text
\* payload shorter than its declared length.
C20_ExhaustionIsEndOfBuffer ==
    (pc = "truncated" /\ IsSupported(value)) => (~result.ok /\ result.err = "EndOfBuffer")

\* C21: a variable-length sequence decode reads the 4-byte count n and then
\* yields exactly n elements: a request while the counter is positive lowers
\* it by one and decodes one element; once the counter is zero every further
\* request returns end-of-sequence, is no error and reads no byte; a count
\* of 0 gives the empty sequence and consumes the 4 count bytes only.
IsRequest == visitor'.requests = visitor.requests + 1

\* where the element of type t that starts after position p ends
ElemEnd(t, d, p) ==
    CASE t.k = "bool" -> p + 1
      [] t.k = "int" -> p + t.w
      [] t.k = "text" -> p + 4 + LEValue(SubSeq(d, p + 1, p + 3))

IsSeqDecode == visitor.kind = "seq" /\ ty.k = "seq"

C21_SeqCounter ==
    /\ [][(IsSeqDecode /\ IsRequest) =>
            IF ~U32IsZero(visitor.len)
            THEN /\ visitor'.len = U32Sub(visitor.len, U32Of(1))
                 /\ visitor'.last # "end"
                 /\ visitor'.last = "some" =>
                       (visitor'.yielded = visitor.yielded + 1 /\ pos' = ElemEnd(ty.t, data, pos))
            ELSE /\ visitor'.last = "end"
                 /\ visitor'.len = visitor.len
                 /\ visitor'.yielded = visitor.yielded
                 /\ pos' = pos]_vars
    /\ [](IsSeqDecode /\ visitor.last \in {"new", "some", "end"} =>
            U32Add(visitor.len, U32Of(visitor.yielded)) = U32FromLE(SubSeq(data, 5, 8)))
    /\ [](IsSeqDecode /\ visitor.last = "end" =>
            (U32IsZero(visitor.len) /\ U32Of(visitor.yielded) = U32FromLE(SubSeq(data, 5, 8))))
    /\ [](IsSeqDecode /\ visitor.last = "new" => pos = 8)
    /\ [](IsSeqDecode /\ SubSeq(data, 5, 8) = <<0, 0, 0, 0>> /\ visitor.requests > 0 =>
            (visitor.last = "end" /\ visitor.yielded = 0 /\ pos = 8))

C21_Witness ==
    /\ IsSeqDecode
    /\ ty.t = TText
    /\ visitor.yielded = 2
    /\ visitor.requests = 4
    /\ visitor.last = "end"
    /\ pos = Len(data) - 1

\* C22: decoding a fixed-arity aggregate of arity n (tuple, tuple struct,
\* struct, fixed-size array) uses a member cursor over exactly n elements:
\* once n members are yielded a further request returns end-of-sequence and
\* reads nothing from the source; before that a request yields a member read
\* from the source or, when the source runs out, fails with an error.
IsFixedDecode == visitor.kind = "tuple" \/ (visitor.kind = "seq" /\ ty.k = "array")

Arity(t) == IF t.k = "array" THEN t.n ELSE Len(t.ts)

C22_ArityCursor ==
    [][(IsFixedDecode /\ IsRequest) =>
          IF visitor.yielded >= Arity(ty)
          THEN /\ visitor'.last = "end"
               /\ visitor'.yielded = visitor.yielded
               /\ pos' = pos
          ELSE /\ visitor'.last # "end"
               /\ visitor'.last = "some" => (pos < pos' /\ pos' <= Len(data))
               /\ visitor'.last # "some" => visitor'.last = "EndOfBuffer"]_vars

\* C23: during a top-level map decode started with envelope length L, after
\* every entry read (bytes consumed after the envelope) + (remaining budget)
\* = L, so each entry lowers the budget by 4 plus its payload length, and the
\* end of the map is reported only at budget 0: a map decode that ends has
\* consumed exactly L bytes after the envelope.
\* Byte counts past 2^32 are three limbs, most significant first.
Wide(x) == <<0, x[1], x[2]>>

WideAdd(a, b) ==
    << a[1] + b[1] + ((a[2] + b[2] + ((a[3] + b[3]) \div Limb)) \div Limb),
       (a[2] + b[2] + ((a[3] + b[3]) \div Limb)) % Limb,
       (a[3] + b[3]) % Limb >>

RECURSIVE WideSum(_)
WideSum(s) == IF s = <<>> THEN Wide(U32Of(0)) ELSE WideAdd(Wide(Head(s)), WideSum(Tail(s)))

\* the bytes consumed after the envelope: those of the head and those drawn
\* from the run that follows it
Consumed == WideAdd(Wide(U32Of(pos - 4)), WideSum(visitor.drawn))

IsMapVisit == visitor.kind = "map" /\ visitor.last \in {"new", "key", "some", "end"}

C23_BudgetInvariant ==
    IsMapVisit =>
        /\ WideAdd(Consumed, Wide(visitor.size)) = Wide(U32FromLE(Take(data, 4)))
        /\ visitor.last = "end" => (U32IsZero(visitor.size) /\ Consumed = Wide(U32FromLE(Take(data, 4))))

\* C24: the byte budget of a map decode is the expected_length the
\* Deserializer was made with, whatever was decoded before: a map that is
\* the second member of an aggregate decodes as a top-level map does that is
\* started with the same envelope length L on the bytes after the first
\* member, not with L less the bytes of the first member.
IsMapMember ==
    /\ pc \notin {"start", "encoded"}
    /\ ty.k = "tuple"
    /\ Len(ty.ts) = 2
    /\ ty.ts[2].k = "map"
    /\ Len(data) >= 4

\* the decode of the aggregate when its first member decoded as first and a
\* top-level map decode of the rest gives top
MemberOf(first, top) ==
    IF ~first.ok THEN ~result.ok /\ result.err = first.err /\ pos = first.pos
    ELSE /\ result.ok = top.ok
         /\ result.err = top.err
         /\ pos = first.pos + top.pos - 4
         /\ result.ok => result.val = Tuple(<<first.val, top.val>>)

TopLevelFrom(q) == from_slice(Take(data, 4) \o Drop(data, q), ty.ts[2])

C24_FullBudget ==
    IsMapMember =>
        MemberOf(from_slice(data, ty.ts[1]),
                 TopLevelFrom(IF from_slice(data, ty.ts[1]).ok THEN from_slice(data, ty.ts[1]).pos ELSE 4))

C24_Witness ==
    /\ IsMapMember
    /\ pc = "misframed"
    /\ ty.ts[1] = TNum(FALSE, 1)
    /\ result.ok
    /\ result.val.m[2].e # {}
    /\ LEValue(SubSeq(data, 1, 3)) = pos - 5

\* C25: a byte blob is encoded as the variable-length sequence of the u8
\* elements that hold its bytes is: serialize_bytes(b) and the encoding of
\* that sequence write the same bytes; and a blob is read back as that
\* sequence is read back, by deserialize_seq.
AsVec(b) == Vec(TNum(FALSE, 1), [i \in 1..Len(b) |-> U8(b[i])])

C25_BytesAsSeq ==
    /\ (Encoded /\ value.k = "bytes") => writer = to_vec(AsVec(value.b)).out
    /\ (Decoded /\ ty = TBytes) =>
          /\ result.ok = from_slice(data, TSeq(TNum(FALSE, 1))).ok
          /\ result.err = from_slice(data, TSeq(TNum(FALSE, 1))).err
          /\ pos = from_slice(data, TSeq(TNum(FALSE, 1))).pos
          /\ result.ok => AsVec(result.val.b) = from_slice(data, TSeq(TNum(FALSE, 1))).val

\* C26: decode followed by encode reproduces the payload bytes: for every
\* payload byte decoded as bool behind a valid envelope and every w-byte
\* payload decoded as a w-byte integer, to_vec of the decoded value is the
\* payload; a boolean byte is 0 or 1 on both sides.
Payload == SubSeq(data, 5, Len(data))

C26_DecodeEncode ==
    /\ pc = "scalar" => result.ok
    /\ pc = "reencoded" => (werr = "none" /\ writer = Payload)
    /\ (pc = "reencoded" /\ ty = TBool) => (Payload[1] \in {0, 1} /\ writer[1] \in {0, 1})

\* C27: no 32-bit length computation wraps: for every text read that
\* succeeds, the consumed size the decoder reports (declared length + 4 as a
\* u32) is the number of bytes the read consumed, for declared lengths in
\* the top four values of the 32-bit range too.  Stated for the first entry
\* read of a map decode, whose bytes are all that was consumed.
IsFirstRead == visitor.kind = "map" /\ visitor.requests = 1 /\ Len(visitor.drawn) = 1

C27_NoWrap == IsFirstRead => Wide(visitor.reported) = Consumed

====
